---- MODULE Spec2Model ----
(***************************************************************************)
(* Layout core of the typesetting engine (src/src/layout/mod.rs): the      *)
(* type-erased node handle, its cached layout entry point, the composition *)
(* helpers and the wrapper nodes Empty, Sized, Fill and Stroke.            *)
(*                                                                         *)
(* The recursion of LayoutNode::layout is modelled as an explicit call     *)
(* stack; every activation walks through the positions                     *)
(*   "enter" (fingerprint + cache probe)  -> hit: return / miss: level+1   *)
(*   "own"   (the node's own algorithm starts, up to its child call)       *)
(*   "wait"  (a child call is in flight)                                   *)
(*   "done"  (the own algorithm has returned, level still raised)          *)
(* and leaves the stack in Exit (level-1, consistency check, insert).      *)
(*                                                                         *)
(* The frames are values in that machine. Who owns a frame (the Arc<Frame> *)
(* handles that a result and a cache entry share, and Arc::make_mut) is    *)
(* modelled on its own, in the part on shared frames.                      *)
(***************************************************************************)
EXTENDS Integers, Sequences, FiniteSets, TLC

\* ------------------------------------------------------------------ bounds
\* Largest length of a region side; lengths are 1..MaxLen, sizes may be 0.
MaxLen == 2
\* Number of outermost layout calls of one session.
MaxCalls == 2

Lens == 1..MaxLen
Axes == {1, 2}

\* ----------------------------------------------------------- Option, Spec<T>
None == <<>>
Some(v) == <<v>>
IsSome(o) == o # None

\* Spec<bool>::select : per axis, a where the flag is set, b otherwise.
Select(mask, a, b) ==
  <<IF mask[1] THEN a[1] ELSE b[1], IF mask[2] THEN a[2] ELSE b[2]>>

\* Spec<T>::filter : per axis, Some(v) where the flag is set, None otherwise.
Filter(v, mask) ==
  <<IF mask[1] THEN Some(v[1]) ELSE None, IF mask[2] THEN Some(v[2]) ELSE None>>

\* Spec<bool> | Spec<bool>, !Spec<bool>
SpecOr(a, b) == <<a[1] \/ b[1], a[2] \/ b[2]>>
SpecNot(a) == <<~a[1], ~a[2]>>

\* Spec<Option<T>>::any(Option::is_some)
AnySome(s) == IsSome(s[1]) \/ IsSome(s[2])

SizeZero == <<0, 0>>

\* ------------------------------------------------------------------ Linear
\* A Linear is rel * base + abs; rel counts whole multiples of the base.
Linear(rel, abs) == [rel |-> rel, abs |-> abs]
LinearIsRelative(l) == l.rel # 0
LinearIsZero(l) == l.rel = 0 /\ l.abs = 0
LinearResolve(l, b) == l.rel * b + l.abs

\* ----------------------------------------------------------------- Regions
Regions(current, base, expand, backlog) ==
  [current |-> current, base |-> base, expand |-> expand, backlog |-> backlog]

\* Regions::one(size, base, expand): a single region, nothing to overflow into.
RegionsOne(size, base, expand) == Regions(size, base, expand, <<>>)

\* The (current, base) pair offered to the i-th frame: the first region, then
\* the backlog, whose regions are their own base.
RegionAt(regions, i) ==
  IF i = 1 THEN Some(<<regions.current, regions.base>>)
  ELSE IF i - 1 <= Len(regions.backlog)
       THEN Some(<<regions.backlog[i - 1], regions.backlog[i - 1]>>)
       ELSE None

\* ------------------------------------------------------------- Constraints
\* Constraints::new(expand): nothing pinned.
ConstraintsNew(expand) ==
  [expand |-> expand, exact |-> <<None, None>>, base |-> <<None, None>>]

PinOk(pin, v) == pin = None \/ pin = Some(v)

\* Constraints::check(current, base, expand): the expansion is the recorded
\* one and every pinned side has the recorded length.
ConstraintsCheck(cts, current, base, expand) ==
  /\ cts.expand = expand
  /\ \A a \in Axes : PinOk(cts.exact[a], current[a]) /\ PinOk(cts.base[a], base[a])

\* ------------------------------------------------------------------- Frame
FrameNew(size) == [size |-> size, elements |-> <<>>]

\* Frame::resize(target, Align::LEFT_TOP): left/top alignment moves nothing.
FrameResize(frame, target) == [frame EXCEPT !.size = target]

\* Frame::prepend(pos, element)
FramePrepend(frame, pos, element) ==
  [frame EXCEPT !.elements = <<[pos |-> pos, element |-> element]>> \o @]

ShapeFilled(size, fill) == [geometry |-> size, fill |-> Some(fill), stroke |-> None]
ShapeStroked(size, stroke) == [geometry |-> size, fill |-> None, stroke |-> Some(stroke)]

\* Frame::constrain(cts)
Constrain(frame, cts) == [item |-> frame, cts |-> cts]

\* ----------------------------------------------------------------- results
Ok(frames) == [tag |-> "Ok", frames |-> frames]
Err(error) == [tag |-> "Err", error |-> error]
NoResult == [tag |-> "None"]

\* ------------------------------------------------------------------- nodes
\* Concrete nodes. EmptyNode, SizedNode, FillNode and StrokeNode are the
\* nodes of this module; PadNode, AlignNode and TransformNode are library
\* nodes that the composition helpers only construct.
EmptyNode == [kind |-> "Empty"]
SizedNode(sizing, child) == [kind |-> "Sized", sizing |-> sizing, child |-> child]
FillNode(fill, child) == [kind |-> "Fill", fill |-> fill, child |-> child]
StrokeNode(stroke, child) == [kind |-> "Stroke", stroke |-> stroke, child |-> child]
AlignNode(aligns, child) == [kind |-> "Align", aligns |-> aligns, child |-> child]
PadNode(padding, child) == [kind |-> "Pad", padding |-> padding, child |-> child]
MoveNode(transform, child) == [kind |-> "Move", transform |-> transform, child |-> child]
\* A library leaf whose own algorithm reports a layout failure.
FailNode(reason) == [kind |-> "Fail", reason |-> reason]
\* A library leaf whose content is broken into `parts` frames.
FlowNode(parts) == [kind |-> "Flow", parts |-> parts]
\* A library leaf of a natural size.
BoxNode(size) == [kind |-> "Box", size |-> size]
\* A library node that lays out its children one after the other.
StackNode(children) == [kind |-> "Stack", children |-> children]

\* #[derive(Hash)] of a node: its fields in order; a child handle contributes
\* its precomputed hash.
DeriveHash(item) ==
  CASE item.kind = "Sized" -> <<item.sizing, item.child.hash>>
    [] item.kind = "Fill" -> <<item.fill, item.child.hash>>
    [] item.kind = "Stroke" -> <<item.stroke, item.child.hash>>
    [] item.kind = "Align" -> <<item.aligns, item.child.hash>>
    [] item.kind = "Pad" -> <<item.padding, item.child.hash>>
    [] item.kind = "Move" -> <<item.transform, item.child.hash>>
    [] item.kind = "Fail" -> <<item.reason>>
    [] item.kind = "Flow" -> <<item.parts>>
    [] item.kind = "Box" -> <<item.size>>
    [] item.kind = "Stack" -> <<[i \in 1..Len(item.children) |-> item.children[i].hash]>>
    [] OTHER -> <<>>

\* Prehashed::new: the type id, then the node's own hash, computed once.
\* The hash function is taken to be collision free on the nodes explored.
Prehashed(item) == [hash |-> <<item.kind>> \o DeriveHash(item), item |-> item]

\* LayoutNode::new / Layout::pack
Pack(item) == Prehashed(item)

\* LayoutNode::id
NodeId(node) == node.item.kind

\* <LayoutNode as PartialEq>::eq : Prehashed compares the stored hashes.
NodeEq(a, b) == a.hash = b.hash

\* <LayoutNode as Default>::default
DefaultNode == Pack(EmptyNode)

\* ------------------------------------------------------ composition helpers
\* LayoutNode::sized
NodeSized(node, sizing) ==
  IF AnySome(sizing) THEN Pack(SizedNode(sizing, node)) ELSE node

\* LayoutNode::filled / LayoutNode::stroked
NodeFilled(node, fill) == Pack(FillNode(fill, node))
NodeStroked(node, stroke) == Pack(StrokeNode(stroke, node))

\* LayoutNode::aligned
NodeAligned(node, aligns) ==
  IF AnySome(aligns) THEN Pack(AlignNode(aligns, node)) ELSE node

\* NodePadded that does not look at the bottom side.
NodePaddedThreeSides(node, padding) ==
  IF \/ ~LinearIsZero(padding[1])
     \/ ~LinearIsZero(padding[2])
     \/ ~LinearIsZero(padding[3])
  THEN Pack(PadNode(padding, node))
  ELSE node

\* LayoutNode::padded ; padding is <<left, top, right, bottom>>
NodePadded(node, padding) ==
  IF \/ ~LinearIsZero(padding[1])
     \/ ~LinearIsZero(padding[2])
     \/ ~LinearIsZero(padding[3])
     \/ ~LinearIsZero(padding[4])
  THEN Pack(PadNode(padding, node))
  ELSE node

\* Point::is_zero
PointIsZero(p) == p[1] = 0 /\ p[2] = 0

\* LayoutNode::moved ; Transform::translation(x, y)
NodeMoved(node, offset) ==
  IF ~PointIsZero(offset)
  THEN Pack(MoveNode([tx |-> offset[1], ty |-> offset[2]], node))
  ELSE node

\* ------------------------------------------------------------------ styles
\* A style chain is a sequence of property overrides, each belonging to one
\* node type. StyleChain::barred(id) narrows the chain to the overrides that
\* bear on the node type id.
StyleEntry(target, value) == [target |-> target, value |-> value]

Barred(styles, id) ==
  LET Relevant(s) == s.target = id IN SelectSeq(styles, Relevant)

\* ------------------------------------------------------------------- state
VARIABLES
  cache,   \* vm.layout_cache : fingerprint -> sequence of FramesEntry
  level,   \* vm.level
  stack,   \* the active LayoutNode::layout calls, outermost first
  top,     \* the arguments of the current (or last) outermost call
  ret,     \* what the last outermost call returned
  calls,   \* outermost calls made so far
  fault,   \* "none", or the panic that ended the session
  prints,  \* every <<node hash, barred styles, fingerprint>> computed so far
  built,   \* the last use of a composition helper
  debug,   \* cfg(debug_assertions): the build checks what it inserts
  heap,    \* the Arc<Frame> allocations: frame and strong count
  hand,    \* the Vec of Arc<Frame> handles the running code holds
  kept     \* the Arc<Frame> handles the cache entries hold

arcVars == <<heap, hand, kept>>
vars == <<cache, level, stack, top, ret, calls, fault, prints, built, debug, arcVars>>

\* A fingerprint that also feeds the recursion level into the hasher.
FingerprintWithLevel(node, barred) == <<node.hash, barred, level>>

\* The fingerprint: FxHasher64 fed with the handle (its precomputed hash)
\* and then with the barred style chain.
Fingerprint(node, barred) == <<node.hash, barred>>

\* ------------------------------------------------------------------- cache
\* FramesEntry::new(frames, level)
FramesEntry(frames, lvl) == [frames |-> frames, level |-> lvl]

\* FramesEntry::check(regions): every stored frame's constraints hold for
\* the region it would be placed in.
EntryCheck(entry, regions) ==
  \A i \in 1..Len(entry.frames) :
    LET r == RegionAt(regions, i) IN
      /\ IsSome(r)
      /\ ConstraintsCheck(entry.frames[i].cts, r[1][1], r[1][2], regions.expand)

\* LayoutCache::get(hash, regions): the frames of the first entry stored
\* under the fingerprint whose constraints the regions satisfy.
CacheGet(c, hash, regions) ==
  IF hash \notin DOMAIN c THEN None
  ELSE LET fit == {i \in 1..Len(c[hash]) : EntryCheck(c[hash][i], regions)} IN
         IF fit = {} THEN None
         ELSE Some(c[hash][CHOOSE i \in fit : \A j \in fit : i <= j].frames)

\* LayoutCache::insert(hash, entry): appended to the entries of the fingerprint.
CacheInsert(c, hash, entry) ==
  IF hash \in DOMAIN c
  THEN [c EXCEPT ![hash] = Append(@, entry)]
  ELSE [h \in DOMAIN c \cup {hash} |-> IF h = hash THEN <<entry>> ELSE c[h]]

EmptyCache == [h \in {} |-> <<>>]

\* ------------------------------------------------ the nodes' own algorithms
\* EmptyLayout that always fills the region.
EmptyLayoutFilling(regions) ==
  LET cts == [ConstraintsNew(regions.expand) EXCEPT
                !.exact = Filter(regions.current, regions.expand)]
  IN Ok(<<Constrain(FrameNew(regions.current), cts)>>)

\* <EmptyNode as Layout>::layout
EmptyLayout(regions) ==
  LET size == Select(regions.expand, regions.current, SizeZero)
      cts == [ConstraintsNew(regions.expand) EXCEPT
                !.exact = Filter(regions.current, regions.expand)]
  IN Ok(<<Constrain(FrameNew(size), cts)>>)

\* sizing.map_is_none()
IsAuto(sizing) == <<sizing[1] = None, sizing[2] = None>>

\* sizing.map(|s| s.map_or(false, Linear::is_relative))
IsRel(sizing) ==
  <<IsSome(sizing[1]) /\ LinearIsRelative(sizing[1][1]),
    IsSome(sizing[2]) /\ LinearIsRelative(sizing[2][1])>>

\* SizedPod that hands the backlog on to the child.
SizedPodWithBacklog(sizing, regions) ==
  LET size == <<IF IsSome(sizing[1]) THEN LinearResolve(sizing[1][1], regions.base[1])
                ELSE regions.current[1],
                IF IsSome(sizing[2]) THEN LinearResolve(sizing[2][1], regions.base[2])
                ELSE regions.current[2]>>
      base == Select(IsAuto(sizing), regions.base, size)
      expand == SpecOr(regions.expand, SpecNot(IsAuto(sizing)))
  IN Regions(size, base, expand, regions.backlog)

\* SizedNode::layout, first half: the pod into which the child is layouted.
SizedPod(sizing, regions) ==
  LET size == <<IF IsSome(sizing[1]) THEN LinearResolve(sizing[1][1], regions.base[1])
                ELSE regions.current[1],
                IF IsSome(sizing[2]) THEN LinearResolve(sizing[2][1], regions.base[2])
                ELSE regions.current[2]>>
      base == Select(IsAuto(sizing), regions.base, size)
      expand == SpecOr(regions.expand, SpecNot(IsAuto(sizing)))
  IN RegionsOne(size, base, expand)

\* SizedFinish with the base pinned on the automatic axes only.
SizedFinishBaseAutoOnly(sizing, regions, frames) ==
  LET frame == frames[1].item
      target == Select(regions.expand, regions.current, frame.size)
      cts == [ConstraintsNew(regions.expand) EXCEPT
                !.exact = Filter(regions.current, SpecOr(regions.expand, IsAuto(sizing))),
                !.base = Filter(regions.base, IsAuto(sizing))]
  IN Ok([frames EXCEPT ![1] = Constrain(FrameResize(frame, target), cts)])

\* SizedFinish that leaves the child's frame at its size.
SizedFinishNoResize(sizing, regions, frames) ==
  LET cts == [ConstraintsNew(regions.expand) EXCEPT
                !.exact = Filter(regions.current, SpecOr(regions.expand, IsAuto(sizing))),
                !.base = Filter(regions.base, SpecOr(IsRel(sizing), IsAuto(sizing)))]
  IN Ok([frames EXCEPT ![1] = Constrain(frames[1].item, cts)])

\* SizedFinish that pins exact to the size the child's frame had.
SizedFinishPinningFrame(sizing, regions, frames) ==
  LET frame == frames[1].item
      target == Select(regions.expand, regions.current, frame.size)
      cts == [ConstraintsNew(regions.expand) EXCEPT
                !.exact = Filter(frame.size, SpecOr(regions.expand, IsAuto(sizing))),
                !.base = Filter(regions.base, SpecOr(IsRel(sizing), IsAuto(sizing)))]
  IN Ok([frames EXCEPT ![1] = Constrain(FrameResize(frame, target), cts)])

\* SizedFinish that leaves the child's constraints on the frame.
SizedFinishKeepingCts(sizing, regions, frames) ==
  LET frame == frames[1].item
      target == Select(regions.expand, regions.current, frame.size)
  IN Ok([frames EXCEPT ![1] = Constrain(FrameResize(frame, target), frames[1].cts)])

\* SizedFinish with exact pinned on the automatic axes only.
SizedFinishExactAutoOnly(sizing, regions, frames) ==
  LET frame == frames[1].item
      target == Select(regions.expand, regions.current, frame.size)
      cts == [ConstraintsNew(regions.expand) EXCEPT
                !.exact = Filter(regions.current, IsAuto(sizing)),
                !.base = Filter(regions.base, SpecOr(IsRel(sizing), IsAuto(sizing)))]
  IN Ok([frames EXCEPT ![1] = Constrain(FrameResize(frame, target), cts)])

\* SizedNode::layout, second half: resize the first frame and replace its
\* constraints. (frames is not empty.)
SizedFinish(sizing, regions, frames) ==
  LET frame == frames[1].item
      target == Select(regions.expand, regions.current, frame.size)
      cts == [ConstraintsNew(regions.expand) EXCEPT
                !.exact = Filter(regions.current, SpecOr(regions.expand, IsAuto(sizing))),
                !.base = Filter(regions.base, SpecOr(IsRel(sizing), IsAuto(sizing)))]
  IN Ok([frames EXCEPT ![1] = Constrain(FrameResize(frame, target), cts)])

\* FillFinish that fills the first frame only.
FillFinishFirstOnly(fill, frames) ==
  Ok([i \in 1..Len(frames) |->
        IF i = 1
        THEN [frames[i] EXCEPT !.item =
                FramePrepend(@, SizeZero, ShapeFilled(frames[i].item.size, fill))]
        ELSE frames[i]])

\* FillNode::layout after the child: one filled rectangle of the frame's
\* size in front of every frame.
FillFinish(fill, frames) ==
  Ok([i \in 1..Len(frames) |->
        [frames[i] EXCEPT !.item =
           FramePrepend(@, SizeZero, ShapeFilled(frames[i].item.size, fill))]])

\* StrokeNode::layout after the child.
StrokeFinish(stroke, frames) ==
  Ok([i \in 1..Len(frames) |->
        [frames[i] EXCEPT !.item =
           FramePrepend(@, SizeZero, ShapeStroked(frames[i].item.size, stroke))]])

\* The library leaf: its algorithm fails with an error naming the node.
FailLayout(node) == Err([failed |-> node.hash, reason |-> node.item.reason])

\* The library leaf of several parts: one frame for each part, the i-th one
\* filling the i-th region offered (the last region, once they are used up)
\* and valid for regions of that size.
FlowLayout(parts, regions) ==
  LET last == 1 + Len(regions.backlog)
      size(i) == RegionAt(regions, IF i <= last THEN i ELSE last)[1][1]
      text == [pos |-> SizeZero, element |-> [text |-> "part"]]
      part(i) ==
        Constrain([size |-> size(i), elements |-> <<text>>],
                  [ConstraintsNew(regions.expand) EXCEPT
                     !.exact = <<Some(size(i)[1]), Some(size(i)[2])>>])
  IN Ok([i \in 1..parts |-> part(i)])

\* The library leaf of a natural size: one frame of that size, which it
\* pins (instead of the region's) on the axes that expand.
BoxLayout(size, regions) ==
  LET cts == [ConstraintsNew(regions.expand) EXCEPT
                !.exact = Filter(size, regions.expand)]
  IN Ok(<<Constrain(FrameNew(size), cts)>>)

IsLeaf(node) == NodeId(node) \in {"Empty", "Fail", "Flow", "Box"}

\* The own algorithm of a leaf.
LeafLayout(node, regions) ==
  CASE NodeId(node) = "Empty" -> EmptyLayout(regions)
    [] NodeId(node) = "Flow" -> FlowLayout(node.item.parts, regions)
    [] NodeId(node) = "Box" -> BoxLayout(node.item.size, regions)
    [] OTHER -> FailLayout(node)

\* The library stack: one frame of the region's size that holds the frames
\* of the children, valid for these very regions.
StackFinish(regions, frames) ==
  LET group(i) == [pos |-> SizeZero, element |-> frames[i].item]
      cts == [ConstraintsNew(regions.expand) EXCEPT
                !.exact = <<Some(regions.current[1]), Some(regions.current[2])>>,
                !.base = <<Some(regions.base[1]), Some(regions.base[2])>>]
  IN Ok(<<Constrain([size |-> regions.current,
                     elements |-> [i \in 1..Len(frames) |-> group(i)]], cts)>>)

\* The child handles of a node, in the order in which it lays them out.
Children(node) ==
  IF NodeId(node) = "Stack" THEN node.item.children ELSE <<node.item.child>>

\* The regions a wrapper hands to its child.
ChildRegions(node, regions) ==
  IF NodeId(node) = "Sized" THEN SizedPod(node.item.sizing, regions) ELSE regions

\* What a wrapper does with its child's frames (a stack: with the frames of
\* all its children).
WrapperFinish(node, regions, frames) ==
  CASE NodeId(node) = "Sized" -> SizedFinish(node.item.sizing, regions, frames)
    [] NodeId(node) = "Fill" -> FillFinish(node.item.fill, frames)
    [] NodeId(node) = "Stroke" -> StrokeFinish(node.item.stroke, frames)
    [] NodeId(node) = "Stack" -> StackFinish(regions, frames)

\* The result of laying a node out with no cache at all: the own algorithms
\* composed along the tree.
RECURSIVE Compute(_, _)
RECURSIVE ComputeAll(_, _, _)
Compute(node, regions) ==
  IF IsLeaf(node) THEN LeafLayout(node, regions)
  ELSE LET sub == ComputeAll(Children(node), ChildRegions(node, regions), <<>>) IN
         IF sub.tag = "Err" THEN sub
         ELSE WrapperFinish(node, regions, sub.frames)

\* The children in turn, up to the first one that fails.
ComputeAll(children, regions, acc) ==
  IF children = <<>> THEN Ok(acc)
  ELSE LET sub == Compute(Head(children), regions) IN
         IF sub.tag = "Err" THEN sub
         ELSE ComputeAll(Tail(children), regions, acc \o sub.frames)

\* ------------------------------------------------------------- input pools
Paints == {"red"}
Strokes == {"thin"}

\* Per axis: automatic, an absolute length, or the whole base.
AxisSizings == {None, Some(Linear(0, 1)), Some(Linear(1, 0))}
Sizings == {<<x, y>> : x \in AxisSizings, y \in AxisSizings}

Leaves == {DefaultNode, Pack(FailNode("unresolvable sizing"))}

\* One more layer of this module's wrappers around the nodes of a set.
Wrapped(nodes, sizings) ==
  {NodeSized(n, s) : n \in nodes, s \in sizings}
    \cup {NodeFilled(n, f) : n \in nodes, f \in Paints}
    \cup {NodeStroked(n, k) : n \in nodes, k \in Strokes}

AllExpand == {<<x, y>> : x \in BOOLEAN, y \in BOOLEAN}
AllSizes == {<<w, h>> : w \in Lens, h \in Lens}

\* Every single region with sides in Lens.
AllRegions ==
  {RegionsOne(c, b, e) : c \in AllSizes, b \in AllSizes, e \in AllExpand}

\* The style chains of a session: none, one override for the fill node, one
\* for a node type that is not in the tree.
StyleChains ==
  {<<>>, <<StyleEntry("Fill", 1)>>, <<StyleEntry("Text", 1)>>,
   <<StyleEntry("Text", 1), StyleEntry("Fill", 1)>>}

\* -------------------------------------------------------- the call stack
NoTop == [node |-> DefaultNode, regions |-> RegionsOne(SizeZero, SizeZero, <<FALSE, FALSE>>),
          styles |-> <<>>, level |-> 0, hits |-> 0]
NoBuilt == [op |-> "none", arg |-> <<>>, before |-> DefaultNode, after |-> DefaultNode]
NoHand == [pc |-> "idle", frames |-> <<>>, by |-> "none", from |-> 0, wraps |-> 0]

\* A new activation of LayoutNode::layout.
Activation(node, regions, styles, lvl) ==
  [node |-> node, regions |-> regions, styles |-> styles,
   hash |-> None,      \* the fingerprint, once computed
   pc |-> "enter",
   entry |-> lvl,      \* vm.level when the call was entered
   runs |-> 0,         \* times the node's own algorithm was started
   kids |-> 0,         \* child layout calls the own algorithm made
   acc |-> <<>>,       \* the frames of the earlier children
   sub |-> NoResult,   \* what the child call returned
   res |-> NoResult,   \* what the own algorithm returned
   born |-> {}]        \* cache entries inserted by the direct child calls

Depth == Len(stack)
Top == stack[Depth]

\* Hand a result to the caller: the waiting parent activation, or the session.
\* ins is the set of cache entries the returning call inserted.
Return(result, ins) ==
  IF Depth > 1
  THEN /\ stack' = [SubSeq(stack, 1, Depth - 1) EXCEPT
                      ![Depth - 1].sub = result,
                      ![Depth - 1].born = @ \cup ins]
       /\ ret' = ret
  ELSE /\ stack' = <<>>
       /\ ret' = result

\* An outermost call of LayoutNode::layout.
Call(nodes, regs, stys) ==
  /\ fault = "none"
  /\ stack = <<>>
  /\ calls < MaxCalls
  /\ \E node \in nodes, regions \in regs, styles \in stys :
       /\ stack' = <<Activation(node, regions, styles, level)>>
       /\ top' = [node |-> node, regions |-> regions, styles |-> styles,
                  level |-> level,   \* vm.level before the call
                  hits |-> 0]        \* cache hits during the call
  /\ ret' = NoResult
  /\ calls' = calls + 1
  /\ UNCHANGED <<cache, level, fault, prints, built, debug, arcVars>>

\* EnterHit that runs the own algorithm although the cache has the frames.
EnterHitRunsAnyway ==
  /\ fault = "none"
  /\ Depth > 0
  /\ Top.pc = "enter"
  /\ LET barred == Barred(Top.styles, NodeId(Top.node))
         hash == Fingerprint(Top.node, barred)
         got == CacheGet(cache, hash, Top.regions)
     IN /\ IsSome(got)
        /\ stack' = [stack EXCEPT ![Depth].pc = "own",
                                  ![Depth].styles = barred,
                                  ![Depth].hash = Some(hash)]
        /\ prints' = prints \cup {<<Top.node.hash, barred, hash>>}
  /\ level' = level + 1
  /\ UNCHANGED <<cache, top, ret, calls, fault, built, debug, arcVars>>

\* LayoutNode::layout, lines 140-152: the fingerprint is computed and the
\* cache holds frames for it that fit the regions; they are returned.
EnterHit ==
  /\ fault = "none"
  /\ Depth > 0
  /\ Top.pc = "enter"
  /\ LET barred == Barred(Top.styles, NodeId(Top.node))
         hash == Fingerprint(Top.node, barred)
         got == CacheGet(cache, hash, Top.regions)
     IN /\ IsSome(got)
        /\ Return(Ok(got[1]), {})
        /\ prints' = prints \cup {<<Top.node.hash, barred, hash>>}
  /\ top' = [top EXCEPT !.hits = @ + 1]
  /\ UNCHANGED <<cache, level, calls, fault, built, debug, arcVars>>

\* EnterMiss that leaves the level alone.
EnterMissKeepingLevel ==
  /\ fault = "none"
  /\ Depth > 0
  /\ Top.pc = "enter"
  /\ LET barred == Barred(Top.styles, NodeId(Top.node))
         hash == Fingerprint(Top.node, barred)
         got == CacheGet(cache, hash, Top.regions)
     IN /\ got = None
        /\ stack' = [stack EXCEPT ![Depth].pc = "own",
                                  ![Depth].styles = barred,
                                  ![Depth].hash = Some(hash)]
        /\ prints' = prints \cup {<<Top.node.hash, barred, hash>>}
  /\ level' = level
  /\ UNCHANGED <<cache, top, ret, calls, fault, built, debug, arcVars>>

\* LayoutNode::layout, lines 140-154: the cache has nothing that fits; the
\* level is raised and the node's own algorithm is about to run.
EnterMiss ==
  /\ fault = "none"
  /\ Depth > 0
  /\ Top.pc = "enter"
  /\ LET barred == Barred(Top.styles, NodeId(Top.node))
         hash == Fingerprint(Top.node, barred)
         got == CacheGet(cache, hash, Top.regions)
     IN /\ got = None
        /\ stack' = [stack EXCEPT ![Depth].pc = "own",
                                  ![Depth].styles = barred,
                                  ![Depth].hash = Some(hash)]
        /\ prints' = prints \cup {<<Top.node.hash, barred, hash>>}
  /\ level' = level + 1
  /\ UNCHANGED <<cache, top, ret, calls, fault, built, debug, arcVars>>

\* Line 155, self.0.layout(...): the own algorithm runs. A leaf finishes at
\* once; a wrapper computes the child's regions and calls the child.
Own ==
  /\ fault = "none"
  /\ Depth > 0
  /\ Top.pc = "own"
  /\ IF IsLeaf(Top.node)
     THEN stack' = [stack EXCEPT ![Depth].pc = "done",
                                 ![Depth].runs = @ + 1,
                                 ![Depth].res = LeafLayout(Top.node, Top.regions)]
     ELSE stack' = Append([stack EXCEPT ![Depth].pc = "wait",
                                        ![Depth].runs = @ + 1,
                                        ![Depth].kids = @ + 1],
                          Activation(Children(Top.node)[1],
                                     ChildRegions(Top.node, Top.regions),
                                     Top.styles, level))
  /\ UNCHANGED <<cache, level, top, ret, calls, fault, prints, built, debug, arcVars>>

\* Resume that answers a failed child with an empty sequence of frames.
ResumeSwallowing ==
  /\ fault = "none"
  /\ Depth > 0
  /\ Top.pc = "wait"
  /\ Top.sub.tag # "None"
  /\ IF Top.sub.tag = "Err"
     THEN stack' = [stack EXCEPT ![Depth].pc = "done", ![Depth].res = Ok(<<>>)]
     ELSE stack' = [stack EXCEPT
                      ![Depth].pc = "done",
                      ![Depth].res = WrapperFinish(Top.node, Top.regions, Top.sub.frames)]
  /\ UNCHANGED <<cache, level, top, ret, calls, fault, prints, built, debug, arcVars>>

\* Resume in which a sized node hands on a child's empty sequence of frames.
ResumeSkippingEmpty ==
  /\ fault = "none"
  /\ Depth > 0
  /\ Top.pc = "wait"
  /\ Top.sub.tag # "None"
  /\ IF Top.sub.tag = "Err"
     THEN /\ stack' = [stack EXCEPT ![Depth].pc = "done", ![Depth].res = Top.sub]
          /\ fault' = fault
     ELSE IF Top.kids < Len(Children(Top.node))
     THEN /\ stack' = Append([stack EXCEPT ![Depth].kids = @ + 1,
                                           ![Depth].acc = @ \o Top.sub.frames,
                                           ![Depth].sub = NoResult],
                             Activation(Children(Top.node)[Top.kids + 1],
                                        ChildRegions(Top.node, Top.regions),
                                        Top.styles, level))
          /\ fault' = fault
     ELSE IF NodeId(Top.node) = "Sized" /\ Len(Top.sub.frames) = 0
     THEN /\ stack' = [stack EXCEPT ![Depth].pc = "done", ![Depth].res = Top.sub]
          /\ fault' = fault
     ELSE /\ stack' = [stack EXCEPT
                         ![Depth].pc = "done",
                         ![Depth].res = WrapperFinish(Top.node, Top.regions,
                                                      Top.acc \o Top.sub.frames)]
          /\ fault' = fault
  /\ UNCHANGED <<cache, level, top, ret, calls, prints, built, debug, arcVars>>

\* The child call of a wrapper has returned: `?` forwards its error, else the
\* wrapper finishes its frames. SizedNode indexes frames[0]. (A stack calls
\* its next child first, if it has one.)
Resume ==
  /\ fault = "none"
  /\ Depth > 0
  /\ Top.pc = "wait"
  /\ Top.sub.tag # "None"
  /\ IF Top.sub.tag = "Err"
     THEN /\ stack' = [stack EXCEPT ![Depth].pc = "done", ![Depth].res = Top.sub]
          /\ fault' = fault
     ELSE IF Top.kids < Len(Children(Top.node))
     THEN /\ stack' = Append([stack EXCEPT ![Depth].kids = @ + 1,
                                           ![Depth].acc = @ \o Top.sub.frames,
                                           ![Depth].sub = NoResult],
                             Activation(Children(Top.node)[Top.kids + 1],
                                        ChildRegions(Top.node, Top.regions),
                                        Top.styles, level))
          /\ fault' = fault
     ELSE IF NodeId(Top.node) = "Sized" /\ Len(Top.sub.frames) = 0
     THEN /\ fault' = "index"
          /\ stack' = stack
     ELSE /\ stack' = [stack EXCEPT
                         ![Depth].pc = "done",
                         ![Depth].res = WrapperFinish(Top.node, Top.regions,
                                                      Top.acc \o Top.sub.frames)]
          /\ fault' = fault
  /\ UNCHANGED <<cache, level, top, ret, calls, prints, built, debug, arcVars>>

\* ExitErr that takes the entries of the call's child calls out of the cache.
ExitErrRollingBack ==
  /\ fault = "none"
  /\ Depth > 0
  /\ Top.pc = "done"
  /\ Top.res.tag = "Err"
  /\ Return(Top.res, {})
  /\ cache' = [h \in DOMAIN cache |->
                LET Stays(e) == <<h, e>> \notin Top.born IN SelectSeq(cache[h], Stays)]
  /\ UNCHANGED <<level, top, calls, fault, prints, built, debug, arcVars>>

\* Line 155, `?`: the own algorithm failed; the error is returned at once.
ExitErr ==
  /\ fault = "none"
  /\ Depth > 0
  /\ Top.pc = "done"
  /\ Top.res.tag = "Err"
  /\ Return(Top.res, {})
  /\ UNCHANGED <<cache, level, top, calls, fault, prints, built, debug, arcVars>>

\* ExitOk that inserts the entry before it checks it.
ExitOkCheckingLate ==
  /\ fault = "none"
  /\ Depth > 0
  /\ Top.pc = "done"
  /\ Top.res.tag = "Ok"
  /\ level' = level - 1
  /\ LET entry == FramesEntry(Top.res.frames, level - 1) IN
       /\ cache' = CacheInsert(cache, Top.hash[1], entry)
       /\ IF debug /\ ~EntryCheck(entry, Top.regions)
          THEN /\ fault' = "constraints"
               /\ UNCHANGED <<stack, ret>>
          ELSE /\ Return(Top.res, {<<Top.hash[1], entry>>})
               /\ fault' = fault
  /\ UNCHANGED <<top, calls, prints, built, debug, arcVars>>

\* ExitOk that builds the entry before it lowers the level.
ExitOkTaggingRaised ==
  /\ fault = "none"
  /\ Depth > 0
  /\ Top.pc = "done"
  /\ Top.res.tag = "Ok"
  /\ level' = level - 1
  /\ LET entry == FramesEntry(Top.res.frames, level) IN
       IF debug /\ ~EntryCheck(entry, Top.regions)
       THEN /\ fault' = "constraints"
            /\ UNCHANGED <<cache, stack, ret>>
       ELSE /\ cache' = CacheInsert(cache, Top.hash[1], entry)
            /\ Return(Top.res, {<<Top.hash[1], entry>>})
            /\ fault' = fault
  /\ UNCHANGED <<top, calls, prints, built, debug, arcVars>>

\* Lines 156-172: the own algorithm succeeded; the level is lowered, the
\* entry is checked against the regions (in a build with debug assertions),
\* inserted, and the frames are returned.
ExitOk ==
  /\ fault = "none"
  /\ Depth > 0
  /\ Top.pc = "done"
  /\ Top.res.tag = "Ok"
  /\ level' = level - 1
  /\ LET entry == FramesEntry(Top.res.frames, level - 1) IN
       IF debug /\ ~EntryCheck(entry, Top.regions)
       THEN /\ fault' = "constraints"
            /\ UNCHANGED <<cache, stack, ret>>
       ELSE /\ cache' = CacheInsert(cache, Top.hash[1], entry)
            /\ Return(Top.res, {<<Top.hash[1], entry>>})
            /\ fault' = fault
  /\ UNCHANGED <<top, calls, prints, built, debug, arcVars>>

\* ------------------------------------------------------------ the session
Init ==
  /\ cache = EmptyCache
  /\ level = 0
  /\ stack = <<>>
  /\ top = NoTop
  /\ ret = NoResult
  /\ calls = 0
  /\ fault = "none"
  /\ prints = {}
  /\ built = NoBuilt
  /\ debug = TRUE
  /\ heap = <<>>
  /\ hand = NoHand
  /\ kept = <<>>

\* The nodes of a session: the leaves, each wrapper kind around a leaf, a
\* child that fails in its own way, and a three-deep tree.
WidthOne == <<Some(Linear(0, 1)), None>>
WidthOfBase == <<Some(Linear(1, 0)), Some(Linear(0, 1))>>
SessionNodes ==
  LET sized == NodeSized(DefaultNode, WidthOne) IN
    Leaves \cup {sized, NodeStroked(sized, "thin"),
                 NodeSized(DefaultNode, WidthOfBase),
                 NodeFilled(DefaultNode, "red"),
                 NodeFilled(Pack(FailNode("cannot be placed")), "red")}

\* The regions of a session: they differ from the first one in the width
\* only, in the height only, in the base only, or in the expansion.
SessionRegions ==
  {RegionsOne(<<1, 1>>, <<1, 1>>, <<FALSE, FALSE>>),
   RegionsOne(<<MaxLen, 1>>, <<MaxLen, 1>>, <<FALSE, FALSE>>),
   RegionsOne(<<1, MaxLen>>, <<1, 1>>, <<FALSE, FALSE>>),
   RegionsOne(<<1, 1>>, <<1, MaxLen>>, <<FALSE, FALSE>>),
   RegionsOne(<<1, 1>>, <<1, 1>>, <<TRUE, FALSE>>),
   RegionsOne(<<MaxLen, 1>>, <<MaxLen, 1>>, <<TRUE, FALSE>>),
   RegionsOne(<<1, MaxLen>>, <<MaxLen, MaxLen>>, <<FALSE, TRUE>>),
   RegionsOne(<<MaxLen, MaxLen>>, <<1, MaxLen>>, <<TRUE, TRUE>>)}

SessionStyles == {<<>>, <<StyleEntry("Fill", 1)>>}

SessionCall == Call(SessionNodes, SessionRegions, SessionStyles)

Next ==
  \/ SessionCall
  \/ EnterHit
  \/ EnterMiss
  \/ Own
  \/ Resume
  \/ ExitErr
  \/ ExitOk

Spec == Init /\ [][Next]_vars

\* ------------------------------------------------- one call, every region
\* A single outermost call on the empty cache, for every node of up to two
\* wrappers and every region. (A node never contains itself, so such a call
\* never hits the cache and EnterHit is left out.)
WideNodes ==
  LET one == Wrapped(Leaves, Sizings) IN
    Leaves \cup one \cup Wrapped(one, {WidthOne, WidthOfBase})

WideCall ==
  /\ calls = 0
  /\ Call(WideNodes, AllRegions, {<<>>})

NextWide ==
  \/ WideCall
  \/ EnterMiss
  \/ Own
  \/ Resume
  \/ ExitErr
  \/ ExitOk

SpecWide == Init /\ [][NextWide]_vars

\* ------------------------------------------------ trees of library nodes
\* A session over trees that hold library nodes: a leaf that fails, leaves
\* of no and of two frames, a leaf of a natural size, and a stack of two
\* children. The build is one with or without debug assertions. The first
\* call lays out a tree, the later ones lay out the tree or a part of it.
InitLib ==
  /\ cache = EmptyCache
  /\ level = 0
  /\ stack = <<>>
  /\ top = NoTop
  /\ ret = NoResult
  /\ calls = 0
  /\ fault = "none"
  /\ prints = {}
  /\ built = NoBuilt
  /\ debug \in BOOLEAN
  /\ heap = <<>>
  /\ hand = NoHand
  /\ kept = <<>>

NoWay == Pack(FailNode("cannot be placed"))
TwoParts == Pack(FlowNode(2))
UnitBox == Pack(BoxNode(<<1, 1>>))
LibLeaves == {DefaultNode, NoWay, Pack(FlowNode(0)), TwoParts, UnitBox}

LibNodes ==
  LET pair == Pack(StackNode(<<DefaultNode, NoWay>>)) IN
    LibLeaves \cup Wrapped(LibLeaves, {WidthOne, WidthOfBase})
      \cup {NodeFilled(NodeStroked(TwoParts, "thin"), "red"),
            pair,
            NodeFilled(pair, "red"),
            Pack(StackNode(<<NodeFilled(UnitBox, "red"), NoWay>>)),
            Pack(StackNode(<<UnitBox, DefaultNode>>))}

\* Regions with and without a backlog.
LibRegions ==
  {RegionsOne(<<1, 1>>, <<1, 1>>, <<FALSE, FALSE>>),
   RegionsOne(<<MaxLen, 1>>, <<MaxLen, 1>>, <<TRUE, FALSE>>),
   Regions(<<1, 1>>, <<MaxLen, 1>>, <<FALSE, FALSE>>, <<<<1, MaxLen>>>>),
   Regions(<<MaxLen, MaxLen>>, <<1, 1>>, <<TRUE, TRUE>>, <<<<1, 1>>, <<MaxLen, 1>>>>)}

\* The handles of a tree.
RECURSIVE Subtrees(_)
Subtrees(node) ==
  IF IsLeaf(node) THEN {node}
  ELSE {node} \cup UNION {Subtrees(Children(node)[k]) : k \in 1..Len(Children(node))}

LibCall ==
  IF calls = 0
  THEN Call(LibNodes, LibRegions, SessionStyles)
  ELSE Call(Subtrees(top.node), LibRegions, {top.styles})

NextLib ==
  \/ LibCall
  \/ EnterHit
  \/ EnterMiss
  \/ Own
  \/ Resume
  \/ ExitErr
  \/ ExitOk

SpecLib == InitLib /\ [][NextLib]_vars

\* -------------------------------------------------- building node handles
\* Number of wrappers the builder stacks on the default node.
MaxDepth == 2

RECURSIVE Height(_)
Height(node) ==
  IF "child" \in DOMAIN node.item THEN 1 + Height(node.item.child) ELSE 0

LinearZero == Linear(0, 0)
Aligns == {<<None, None>>, <<Some("center"), None>>, <<None, Some("bottom")>>}
Paddings ==
  {<<LinearZero, LinearZero, LinearZero, LinearZero>>,
   <<Linear(0, 1), LinearZero, LinearZero, LinearZero>>,
   <<LinearZero, Linear(0, 1), LinearZero, LinearZero>>,
   <<LinearZero, LinearZero, Linear(0, 1), LinearZero>>,
   <<LinearZero, LinearZero, LinearZero, Linear(0, 1)>>,
   <<LinearZero, LinearZero, LinearZero, Linear(1, 0)>>}
Offsets == {<<0, 0>>, <<1, 0>>, <<0, 1>>}

\* A composition helper is applied to the handle built so far.
Build(op, arg, after) ==
  /\ Height(built.after) < MaxDepth
  /\ built' = [op |-> op, arg |-> arg, before |-> built.after, after |-> after]
  /\ UNCHANGED <<cache, level, stack, top, ret, calls, fault, prints, debug, arcVars>>

BuildSized == \E s \in Sizings : Build("sized", s, NodeSized(built.after, s))
BuildFilled == \E f \in Paints : Build("filled", f, NodeFilled(built.after, f))
BuildStroked == \E k \in Strokes : Build("stroked", k, NodeStroked(built.after, k))
BuildAligned == \E a \in Aligns : Build("aligned", a, NodeAligned(built.after, a))
BuildPadded == \E p \in Paddings : Build("padded", p, NodePadded(built.after, p))
BuildMoved == \E o \in Offsets : Build("moved", o, NodeMoved(built.after, o))

NextBuild ==
  \/ BuildSized
  \/ BuildFilled
  \/ BuildStroked
  \/ BuildAligned
  \/ BuildPadded
  \/ BuildMoved

SpecBuild == Init /\ [][NextBuild]_vars

\* ----------------------------------------------------------- shared frames
\* The frames of a result are Arc<Frame> handles. The heap holds, for every
\* allocation, the frame and the number of handles to it (the strong count);
\* hand is the Vec of handles the running code holds, with its position
\*   "idle"     (no layout call in flight)
\*   "computed" (an own algorithm has returned the Vec, line 155)
\*   "returned" (LayoutNode::layout has returned the Vec to its caller)
\* who made or changed it last (by), the cache entry it was read from, and
\* the number of wrapper nodes laid out in the session so far (at most
\* MaxDepth); kept holds, for every cache entry, its handles and, as a
\* record of what was inserted, the frames they pointed to at that moment.
Alloc(h, frame) == Append(h, [frame |-> frame, strong |-> 1])

\* Arc::clone / drop of every handle of a Vec.
RECURSIVE Retain(_, _, _)
Retain(h, addrs, by) ==
  IF addrs = <<>> THEN h
  ELSE Retain([h EXCEPT ![Head(addrs)].strong = @ + by], Tail(addrs), by)

FramesAt(h, addrs) == [i \in 1..Len(addrs) |-> h[addrs[i]].frame]

\* MakeMut that writes through the handle whoever else holds the frame.
MakeMutInPlace(h, addr) == [heap |-> h, addr |-> addr]

\* Arc::make_mut: the frame itself if this is the only handle to it, else a
\* fresh copy of it, the handle leaving the shared frame.
MakeMut(h, addr) ==
  IF h[addr].strong = 1
  THEN [heap |-> h, addr |-> addr]
  ELSE [heap |-> Alloc([h EXCEPT ![addr].strong = @ - 1], h[addr].frame),
        addr |-> Len(h) + 1]

\* What a wrapper writes to a frame: lines 273, 305-306, 330-331.
Written(frame, write) ==
  CASE write.op = "resize" -> FrameResize(frame, write.arg)
    [] write.op = "fill" ->
         FramePrepend(frame, SizeZero, ShapeFilled(frame.size, write.arg))
    [] write.op = "stroke" ->
         FramePrepend(frame, SizeZero, ShapeStroked(frame.size, write.arg))

\* Arc::make_mut(frame) and then the write, for the handles from the k-th on.
RECURSIVE MutateFrom(_, _, _, _)
MutateFrom(h, addrs, k, write) ==
  IF k > Len(addrs) THEN [heap |-> h, addrs |-> addrs]
  ELSE LET m == MakeMut(h, addrs[k]) IN
         MutateFrom([m.heap EXCEPT ![m.addr].frame = Written(@, write)],
                    [addrs EXCEPT ![k] = m.addr], k + 1, write)

\* The leaves and regions whose frames the handles point to.
ArcLeaves == {DefaultNode, TwoParts}
ArcRegions ==
  {RegionsOne(<<1, 1>>, <<1, 1>>, <<TRUE, FALSE>>),
   Regions(<<1, 1>>, <<1, 1>>, <<TRUE, TRUE>>, <<<<MaxLen, 1>>>>)}

\* Line 155 for a leaf, after a miss: its own algorithm returns fresh frames.
ArcLeaf ==
  /\ hand.pc = "idle"
  /\ calls < MaxCalls
  /\ \E node \in ArcLeaves, regions \in ArcRegions :
       LET frames == LeafLayout(node, regions).frames IN
         /\ heap' = heap \o [i \in 1..Len(frames) |->
                               [frame |-> frames[i].item, strong |-> 1]]
         /\ hand' = [pc |-> "computed", by |-> "leaf", from |-> 0,
                     wraps |-> hand.wraps,
                     frames |-> [i \in 1..Len(frames) |-> Len(heap) + i]]
  /\ calls' = calls + 1
  /\ UNCHANGED <<cache, level, stack, top, ret, fault, prints, built, debug, kept>>

\* Lines 158-172: the entry holds frames.clone(), the caller gets frames.
ArcInsert ==
  /\ hand.pc = "computed"
  /\ heap' = Retain(heap, hand.frames, 1)
  /\ kept' = Append(kept, [frames |-> hand.frames, was |-> FramesAt(heap, hand.frames)])
  /\ hand' = [hand EXCEPT !.pc = "returned"]
  /\ UNCHANGED <<cache, level, stack, top, ret, calls, fault, prints, built, debug>>

\* Lines 151-152: the cache answers with the frames of an entry; the entry
\* keeps its handles.
ArcHit ==
  /\ hand.pc = "idle"
  /\ calls < MaxCalls
  /\ \E k \in 1..Len(kept) :
       /\ heap' = Retain(heap, kept[k].frames, 1)
       /\ hand' = [pc |-> "returned", by |-> "cache", from |-> k,
                   wraps |-> hand.wraps,
                   frames |-> kept[k].frames]
  /\ calls' = calls + 1
  /\ UNCHANGED <<cache, level, stack, top, ret, fault, prints, built, debug, kept>>

\* SizedNode::layout, lines 268-282: the caller is a sized node; it resizes
\* the first frame through Arc::make_mut and returns the Vec.
ArcResize ==
  /\ hand.pc = "returned"
  /\ hand.wraps < MaxDepth
  /\ hand.frames # <<>>
  /\ LET write == [op |-> "resize", arg |-> <<MaxLen, MaxLen>>]
         m == MutateFrom(heap, SubSeq(hand.frames, 1, 1), 1, write)
     IN /\ heap' = m.heap
        /\ hand' = [hand EXCEPT !.pc = "computed",
                                !.by = "sized",
                                !.from = 0,
                                !.wraps = @ + 1,
                                !.frames = m.addrs \o Tail(hand.frames)]
  /\ UNCHANGED <<cache, level, stack, top, ret, calls, fault, prints, built, debug, kept>>

\* FillNode::layout, lines 302-307: the caller is a fill node; it prepends a
\* shape to every frame through Arc::make_mut and returns the Vec.
ArcFill ==
  /\ hand.pc = "returned"
  /\ hand.wraps < MaxDepth
  /\ \E fill \in Paints :
       LET m == MutateFrom(heap, hand.frames, 1, [op |-> "fill", arg |-> fill])
       IN /\ heap' = m.heap
          /\ hand' = [hand EXCEPT !.pc = "computed",
                                  !.by = "fill",
                                  !.from = 0,
                                  !.wraps = @ + 1,
                                  !.frames = m.addrs]
  /\ UNCHANGED <<cache, level, stack, top, ret, calls, fault, prints, built, debug, kept>>

\* StrokeNode::layout, lines 327-332.
ArcStroke ==
  /\ hand.pc = "returned"
  /\ hand.wraps < MaxDepth
  /\ \E stroke \in Strokes :
       LET m == MutateFrom(heap, hand.frames, 1, [op |-> "stroke", arg |-> stroke])
       IN /\ heap' = m.heap
          /\ hand' = [hand EXCEPT !.pc = "computed",
                                  !.by = "stroke",
                                  !.from = 0,
                                  !.wraps = @ + 1,
                                  !.frames = m.addrs]
  /\ UNCHANGED <<cache, level, stack, top, ret, calls, fault, prints, built, debug, kept>>

\* The outermost caller is done with the Vec and drops it.
ArcDrop ==
  /\ hand.pc = "returned"
  /\ heap' = Retain(heap, hand.frames, -1)
  /\ hand' = [NoHand EXCEPT !.wraps = hand.wraps]
  /\ UNCHANGED <<cache, level, stack, top, ret, calls, fault, prints, built, debug, kept>>

NextArc ==
  \/ ArcLeaf
  \/ ArcInsert
  \/ ArcHit
  \/ ArcResize
  \/ ArcFill
  \/ ArcStroke
  \/ ArcDrop

SpecArc == Init /\ [][NextArc]_vars

\* ================================================================== claims
Active == 1..Depth
Returned == stack = <<>> /\ calls > 0 /\ fault = "none"

\* The entry is one of those stored under the fingerprint.
InCache(c, hash, entry) ==
  hash \in DOMAIN c /\ \E i \in 1..Len(c[hash]) : c[hash][i] = entry

\* C1. Cache transparency: whatever the cache holds, every layout call (the
\* outermost one and every nested one that has returned to its caller) returns
\* what the node yields with no cache at all.
C1_CacheTransparency ==
  /\ Returned => ret = Compute(top.node, top.regions)
  /\ \A i \in Active :
       stack[i].sub.tag # "None" =>
         stack[i].sub = Compute(stack[i].node.item.child,
                                ChildRegions(stack[i].node, stack[i].regions))

\* C1 witness: an outermost call of a wrapper came back with frames, a layout
\* call inside it having been answered by the cache.
C1_Witness ==
  /\ Returned
  /\ ret.tag = "Ok"
  /\ top.hits > 0
  /\ ~IsLeaf(top.node)

\* C2. Constraint soundness: when the own algorithm of a node has produced
\* frames against its regions, then for all regions that satisfy the frames'
\* constraints the node yields the same frames.
C2_ConstraintSoundness ==
  \A i \in Active :
    (stack[i].pc = "done" /\ stack[i].res.tag = "Ok") =>
      \A other \in AllRegions :
        EntryCheck(FramesEntry(stack[i].res.frames, 0), other) =>
          Compute(stack[i].node, other) = stack[i].res

\* C2 witness: a sized node has produced frames whose constraints are also
\* satisfied by regions of another width and another base.
C2_Witness ==
  /\ Depth = 1
  /\ Top.pc = "done"
  /\ Top.res.tag = "Ok"
  /\ NodeId(Top.node) = "Sized"
  /\ \E other \in AllRegions :
       /\ other.current # Top.regions.current
       /\ other.base # Top.regions.base
       /\ EntryCheck(FramesEntry(Top.res.frames, 0), other)

\* C3. Eviction scoping: an entry inserted by a child call is in the
\* cache while the calling activation is on the stack, and is gone from the
\* cache in the step in which that activation returns.
C3_EvictionScoping ==
  [][\A i \in Active : \A e \in stack[i].born :
       IF i <= Len(stack')
       THEN InCache(cache', e[1], e[2])
       ELSE ~InCache(cache', e[1], e[2])]_vars

\* The activations whose own algorithm is running.
Running == {i \in Active : stack[i].pc \in {"own", "wait", "done"}}

\* C4. The level is the number of layout calls whose own algorithm
\* is running, also after a failure, and when an outermost call has returned
\* the level is what it was before the call.
C4_LevelIsDepth ==
  /\ level = Cardinality(Running)
  /\ Returned => level = top.level

RECURSIVE LeafOf(_)
LeafOf(node) == IF IsLeaf(node) THEN node ELSE LeafOf(node.item.child)

\* C5. Error forwarding: a call whose own algorithm failed returns that very
\* error and inserts nothing; a wrapper whose child call failed ends with the
\* child's error, calls no child again and finishes no frames; the outermost
\* call returns the error of the failing leaf.
C5_ErrorForwarding ==
  [][/\ (Depth > 0 /\ Top.pc = "done" /\ Top.res.tag = "Err") =>
          /\ cache' = cache
          /\ Len(stack') = Depth - 1
          /\ IF Depth > 1
             THEN /\ stack'[Depth - 1].sub = Top.res
                  /\ stack'[Depth - 1].kids = stack[Depth - 1].kids
             ELSE ret' = Top.res
     /\ (Depth > 0 /\ Top.pc = "wait" /\ Top.sub.tag = "Err") =>
          /\ cache' = cache
          /\ Len(stack') = Depth
          /\ stack'[Depth].pc = "done"
          /\ stack'[Depth].res = Top.sub
          /\ stack'[Depth].kids = 1
     /\ (stack' = <<>> /\ ret'.tag = "Err") =>
          ret' = FailLayout(LeafOf(top'.node))]_vars

\* C5 witness: the outermost call of a stroke node around a sized node has
\* returned the error of the leaf below them; nothing was inserted.
C5_Witness ==
  /\ Returned
  /\ ret.tag = "Err"
  /\ NodeId(top.node) = "Stroke"
  /\ NodeId(top.node.item.child) = "Sized"
  /\ ret.error.failed = LeafOf(top.node).hash
  /\ cache = EmptyCache

\* C6. A cache hit returns the stored frames without running the own
\* algorithm and leaves the level and the cache alone; after a miss the own
\* algorithm is started, once.
C6_HitSkipsComputation ==
  [][/\ (Depth > 0 /\ Top.pc = "enter") =>
          LET got == CacheGet(cache,
                              Fingerprint(Top.node, Barred(Top.styles, NodeId(Top.node))),
                              Top.regions)
          IN IF IsSome(got)
             THEN /\ level' = level
                  /\ cache' = cache
                  /\ Top.runs = 0
                  /\ Len(stack') = Depth - 1
                  /\ IF Depth > 1
                     THEN stack'[Depth - 1].sub = Ok(got[1])
                     ELSE ret' = Ok(got[1])
             ELSE /\ Len(stack') = Depth
                  /\ stack'[Depth].pc = "own"
                  /\ stack'[Depth].runs = 0
     /\ (Depth > 0 /\ Top.pc = "own") =>
          (Len(stack') >= Depth /\ stack'[Depth].runs = 1)
     /\ \A i \in Active :
          (stack[i].pc \in {"wait", "done"}) =>
            /\ stack[i].runs = 1
            /\ i <= Len(stack') => stack'[i].runs = 1]_vars

\* C6 witness: an outermost call of a leaf was answered by the cache.
C6_Witness ==
  /\ Returned
  /\ IsLeaf(top.node)
  /\ top.hits = 1
  /\ ret.tag = "Ok"

\* C7. The empty node, which is the default handle, yields one frame with no
\* content; per axis its size is the region's where the region expands and
\* zero where it does not, exact is pinned where the region expands and
\* nowhere else, and no base is pinned.
C7_EmptyNode ==
  \A i \in Active :
    (stack[i].node = DefaultNode /\ stack[i].pc = "done") =>
      LET regions == stack[i].regions
          res == stack[i].res
      IN /\ NodeId(DefaultNode) = "Empty"
         /\ res.tag = "Ok"
         /\ Len(res.frames) = 1
         /\ res.frames[1].item.elements = <<>>
         /\ \A a \in Axes :
              /\ res.frames[1].item.size[a] =
                   (IF regions.expand[a] THEN regions.current[a] ELSE 0)
              /\ res.frames[1].cts.exact[a] =
                   (IF regions.expand[a] THEN Some(regions.current[a]) ELSE None)
              /\ res.frames[1].cts.base[a] = None
         /\ (regions.expand = <<TRUE, TRUE>> => res.frames[1].item.size = regions.current)
         /\ (regions.expand = <<FALSE, FALSE>> => res.frames[1].item.size = SizeZero)

\* C7 witness: the empty node was laid out into a region that expands on one
\* axis only, and into one whose sides differ.
C7_Witness ==
  /\ Depth = 1
  /\ Top.node = DefaultNode
  /\ Top.pc = "done"
  /\ Top.regions.expand = <<TRUE, FALSE>>
  /\ Top.regions.current = <<MaxLen, 1>>

\* C8. The first frame of a sized node has the region's size on every axis on
\* which the outer region expands, whatever the child's frame measured, and
\* the size of the child's frame on the other axes; when the region expands on
\* both axes, exact is pinned on both.
C8_SizedResize ==
  \A i \in Active :
    (NodeId(stack[i].node) = "Sized" /\ stack[i].pc = "done" /\ stack[i].res.tag = "Ok") =>
      LET regions == stack[i].regions
          mine == stack[i].res.frames[1]
          childs == stack[i].sub.frames[1]
      IN /\ \A a \in Axes :
              mine.item.size[a] =
                (IF regions.expand[a] THEN regions.current[a] ELSE childs.item.size[a])
         /\ (regions.expand = <<TRUE, TRUE>> =>
               /\ mine.item.size = regions.current
               /\ mine.cts.exact = <<Some(regions.current[1]), Some(regions.current[2])>>)

\* C8 witness: a sized node forcing the width finished in a region that
\* expands on both axes, its child's frame being narrower than the region.
C8_Witness ==
  /\ Depth = 1
  /\ NodeId(Top.node) = "Sized"
  /\ Top.pc = "done"
  /\ Top.res.tag = "Ok"
  /\ IsSome(Top.node.item.sizing[1])
  /\ Top.regions.expand = <<TRUE, TRUE>>
  /\ Top.sub.frames[1].item.size[1] < Top.regions.current[1]

\* C9. No-op skip: padding with four zero sides, moving by the zero offset,
\* aligning with no alignment and sizing with no size give back the handle
\* they were applied to; anything else gives a wrapper around that handle.
C9_NoOpSkip ==
  LET trivial ==
        CASE built.op = "padded" -> \A k \in 1..4 : LinearIsZero(built.arg[k])
          [] built.op = "moved" -> built.arg = <<0, 0>>
          [] built.op = "aligned" -> built.arg = <<None, None>>
          [] built.op = "sized" -> built.arg = <<None, None>>
          [] OTHER -> FALSE
      wrapper ==
        CASE built.op = "padded" -> "Pad"
          [] built.op = "moved" -> "Move"
          [] built.op = "aligned" -> "Align"
          [] built.op = "sized" -> "Sized"
          [] OTHER -> "none"
  IN built.op \in {"padded", "moved", "aligned", "sized"} =>
       IF trivial
       THEN /\ built.after = built.before
            /\ NodeEq(built.after, built.before)
       ELSE /\ NodeId(built.after) = wrapper
            /\ built.after.item.child = built.before
            /\ ~NodeEq(built.after, built.before)

\* C9 witness: a padding of zero was applied to a handle that is itself a
\* wrapper, and gave that handle back.
C9_Witness ==
  /\ built.op = "padded"
  /\ \A k \in 1..4 : LinearIsZero(built.arg[k])
  /\ Height(built.before) > 0
  /\ built.after = built.before

\* C10. Fingerprint stability: the fingerprint is determined by the handle's
\* hash and the barred style chain; calls that agree on both were given the
\* same fingerprint, whatever their regions, the level and the cache were.
C10_FingerprintStability ==
  \A p \in prints : \A q \in prints :
    (p[1] = q[1] /\ p[2] = q[2]) => p[3] = q[3]

\* C10 witness: a child call was answered from an entry that an outermost
\* call at level 0 had inserted: the fingerprint computed one level up, for
\* other regions, was the one computed then.
C10_Witness ==
  /\ Depth > 0
  /\ Top.pc = "wait"
  /\ Top.sub.tag = "Ok"
  /\ Top.born = {}
  /\ Top.entry = 0
  /\ Top.regions.expand = <<FALSE, FALSE>>
  /\ LET child == Top.node.item.child
         hash == Fingerprint(child, Barred(Top.styles, NodeId(child)))
     IN /\ hash \in DOMAIN cache
        /\ \A i \in 1..Len(cache[hash]) : cache[hash][i].level = 0

\* The entries stored under a fingerprint.
EntriesOf(c, hash) == IF hash \in DOMAIN c THEN c[hash] ELSE <<>>

\* What the call at the top of the stack hands to its caller in this step.
Handed == IF Depth > 1 THEN stack'[Depth - 1].sub ELSE ret'

\* C11. Insertion after a miss: when the own algorithm of a call that missed
\* the cache has succeeded, the call adds exactly one entry, under its
\* fingerprint, and changes nothing else in the cache; the entry holds the
\* frames the call returns and is tagged with the level at that moment,
\* which is the level at which the call was entered and one less than the
\* level at which the own algorithm ran. Nothing else inserts.
C11_InsertionAfterMiss ==
  [][/\ (Depth > 0 /\ Top.pc = "done" /\ Top.res.tag = "Ok") =>
          LET hash == Fingerprint(Top.node, Barred(Top.styles, NodeId(Top.node)))
              old == EntriesOf(cache, hash)
              new == EntriesOf(cache', hash)
          IN /\ DOMAIN cache' = DOMAIN cache \cup {hash}
             /\ \A h \in DOMAIN cache \ {hash} : cache'[h] = cache[h]
             /\ Len(new) = Len(old) + 1
             /\ SubSeq(new, 1, Len(old)) = old
             /\ Handed = Ok(new[Len(new)].frames)
             /\ new[Len(new)].level = level'
             /\ new[Len(new)].level = Top.entry
             /\ new[Len(new)].level + 1 = level
     /\ (cache' # cache) => (Depth > 0 /\ Top.pc = "done" /\ Top.res.tag = "Ok")]_vars

\* C11 witness: a call of a wrapper that was entered at a level above zero
\* (an earlier call had failed) has inserted its entry, tagged with that
\* level; its child call had inserted one tagged with the level above.
C11_Witness ==
  /\ Returned
  /\ ret.tag = "Ok"
  /\ top.level > 0
  /\ top.hits = 0
  /\ ~IsLeaf(top.node)
  /\ LET hash == Fingerprint(top.node, Barred(top.styles, NodeId(top.node)))
         child == top.node.item.child
         below == Fingerprint(child, Barred(Barred(top.styles, NodeId(top.node)),
                                            NodeId(child)))
     IN /\ EntriesOf(cache, hash) = <<FramesEntry(ret.frames, top.level)>>
        /\ Len(EntriesOf(cache, below)) = 1
        /\ cache[below][1].level = top.level + 1

\* C12. Level balance on the success path: a call that missed the cache
\* finds the level one above the level of its entry when its own algorithm
\* starts and when that has returned frames, and leaves it at the level of
\* its entry when it returns them; a call that hits the cache leaves the
\* level alone; the level is never below zero, its value when the session
\* started.
C12_LevelBalance ==
  [][/\ (Depth > 0 /\ Top.pc = "own") => level = Top.entry + 1
     /\ (Depth > 0 /\ Top.pc = "done" /\ Top.res.tag = "Ok") =>
          /\ level = Top.entry + 1
          /\ Len(stack') = Depth - 1
          /\ Handed = Top.res
          /\ level' = Top.entry
     /\ (Depth > 0 /\ Top.pc = "enter") =>
          /\ Top.entry = level
          /\ IF IsSome(CacheGet(cache,
                                Fingerprint(Top.node, Barred(Top.styles, NodeId(Top.node))),
                                Top.regions))
             THEN Len(stack') = Depth - 1 /\ level' = level
             ELSE Len(stack') = Depth /\ level' = Top.entry + 1
     /\ level >= 0
     /\ level' >= 0]_vars

\* C12 witness: the own algorithm of a wrapper that was entered at a level
\* above zero has returned frames, its child call having run and returned
\* in between.
C12_Witness ==
  /\ Depth = 1
  /\ Top.pc = "done"
  /\ Top.res.tag = "Ok"
  /\ Top.entry > 0
  /\ Top.born # {}
  /\ level = Top.entry + 1

\* C13. Consistency fault: in a build with debug assertions, when the own
\* algorithm has returned frames whose constraints the regions of the call
\* do not satisfy, the call panics: the cache is as it was and nothing, no
\* frames and no error, reaches the caller. So every entry such a build
\* inserts satisfies its constraints for the regions it was computed for,
\* and no entry changes or leaves the cache afterwards.
C13_ConsistencyFault ==
  [][debug =>
       /\ fault = "none"
       /\ (Depth > 0 /\ Top.pc = "done" /\ Top.res.tag = "Ok"
              /\ ~EntryCheck(FramesEntry(Top.res.frames, 0), Top.regions)) =>
            /\ fault' = "constraints"
            /\ cache' = cache
            /\ stack' = stack
            /\ ret' = ret
       /\ fault' = "constraints" =>
            (Depth > 0 /\ Top.pc = "done" /\ Top.res.tag = "Ok"
               /\ ~EntryCheck(FramesEntry(Top.res.frames, 0), Top.regions))
       /\ \A h \in DOMAIN cache' :
            /\ SubSeq(cache'[h], 1, Len(EntriesOf(cache, h))) = EntriesOf(cache, h)
            /\ \A i \in (Len(EntriesOf(cache, h)) + 1)..Len(cache'[h]) :
                 EntryCheck(cache'[h][i], Top.regions)]_vars

\* C13 witness: in a debug build, the call of a box inside a sized node has
\* panicked: the box had pinned its own height, which is not the height of
\* the region it was given.
C13_Witness ==
  /\ debug
  /\ fault = "constraints"
  /\ Depth = 2
  /\ NodeId(Top.node) = "Box"
  /\ Top.res.frames[1].cts.exact[2] # Some(Top.regions.current[2])
  /\ ~InCache(cache, Top.hash[1], FramesEntry(Top.res.frames, level))

\* C14. Sized-node constraints: whatever constraints the child's frame had,
\* the first frame of a sized node records the expansion of the regions, pins
\* exact to the region's size on the axes that expand or are sized
\* automatically and on no other axis, and pins base to the regions' base on
\* the axes sized relatively or automatically and on no other axis; an axis
\* of an absolute size that does not expand has neither pin.
C14_SizedConstraints ==
  \A i \in Active :
    (NodeId(stack[i].node) = "Sized" /\ stack[i].pc = "done" /\ stack[i].res.tag = "Ok") =>
      LET regions == stack[i].regions
          sizing == stack[i].node.item.sizing
          cts == stack[i].res.frames[1].cts
      IN /\ cts.expand = regions.expand
         /\ \A a \in Axes :
              LET auto == sizing[a] = None
                  rel == sizing[a] # None /\ sizing[a][1].rel # 0
              IN /\ cts.exact[a] = (IF regions.expand[a] \/ auto
                                    THEN Some(regions.current[a]) ELSE None)
                 /\ cts.base[a] = (IF rel \/ auto
                                   THEN Some(regions.base[a]) ELSE None)
                 /\ (~auto /\ ~rel /\ ~regions.expand[a]) =>
                      (cts.exact[a] = None /\ cts.base[a] = None)

\* C14 witness: a sized node with an absolute width and a relative height
\* has finished in regions that do not expand; its child's frame had exact
\* pinned on both axes and no base, its own frame has no pin on the width
\* and the base pinned on the height.
C14_Witness ==
  /\ Depth = 1
  /\ NodeId(Top.node) = "Sized"
  /\ Top.pc = "done"
  /\ Top.res.tag = "Ok"
  /\ Top.node.item.sizing = <<Some(Linear(0, 1)), Some(Linear(1, 0))>>
  /\ Top.regions.expand = <<FALSE, FALSE>>
  /\ Top.regions.base[2] # Top.regions.current[2]
  /\ Top.sub.frames[1].cts.exact = <<Some(1), Some(Top.regions.base[2])>>
  /\ Top.sub.frames[1].cts.base = <<None, None>>
  /\ Top.res.frames[1].cts.exact = <<None, None>>
  /\ Top.res.frames[1].cts.base = <<None, Some(Top.regions.base[2])>>

\* C15. Sized-node sub-request: a sized node calls its child once, and never
\* again; the child is given regions with no backlog, whose size is per axis
\* the sizing resolved against the base of the outer regions, or the outer
\* size where the sizing is automatic; whose base is the outer base where
\* the sizing is automatic and that resolved size where it is not; and which
\* expand where the outer regions expand or a size is forced.
C15_SizedPod ==
  \A i \in Active :
    NodeId(stack[i].node) = "Sized" =>
      LET regions == stack[i].regions
          sizing == stack[i].node.item.sizing
      IN /\ stack[i].kids = (IF stack[i].pc \in {"wait", "done"} THEN 1 ELSE 0)
         /\ stack[i].kids = stack[i].runs
         /\ (stack[i].pc = "wait" /\ i < Depth) =>
              LET pod == stack[i + 1].regions IN
                /\ stack[i + 1].node = stack[i].node.item.child
                /\ pod.backlog = <<>>
                /\ \A a \in Axes :
                     IF sizing[a] = None
                     THEN /\ pod.current[a] = regions.current[a]
                          /\ pod.base[a] = regions.base[a]
                          /\ pod.expand[a] = regions.expand[a]
                     ELSE /\ pod.current[a] =
                               sizing[a][1].rel * regions.base[a] + sizing[a][1].abs
                          /\ pod.base[a] = pod.current[a]
                          /\ pod.expand[a] = TRUE

\* C15 witness: a sized node whose width is the base's width and whose
\* height is absolute has called its child; the outer regions have a
\* backlog, do not expand, and are narrower than their base.
C15_Witness ==
  /\ Depth = 2
  /\ NodeId(stack[1].node) = "Sized"
  /\ stack[1].node.item.sizing = WidthOfBase
  /\ stack[1].regions.backlog # <<>>
  /\ stack[1].regions.expand = <<FALSE, FALSE>>
  /\ stack[1].regions.base[1] > stack[1].regions.current[1]
  /\ stack[2].regions = RegionsOne(<<MaxLen, 1>>, <<MaxLen, 1>>, <<TRUE, TRUE>>)

\* C16. Fill and stroke are pure decoration: a fill or stroke node calls its
\* child, once, with the regions and the style chain it was itself given;
\* it returns as many frames as the child, each with the constraints and the
\* size of the child's frame, and with the child's elements behind one
\* rectangle of the frame's size at the origin, filled or stroked as the
\* node says. This holds for each frame when there are several.
C16_PureDecoration ==
  \A i \in Active :
    NodeId(stack[i].node) \in {"Fill", "Stroke"} =>
      LET me == stack[i]
          child == me.node.item.child
          rect(size) ==
            IF NodeId(me.node) = "Fill"
            THEN [geometry |-> size, fill |-> Some(me.node.item.fill), stroke |-> None]
            ELSE [geometry |-> size, fill |-> None, stroke |-> Some(me.node.item.stroke)]
      IN /\ me.kids = (IF me.pc \in {"wait", "done"} THEN 1 ELSE 0)
         /\ (me.pc = "wait" /\ i < Depth) =>
              /\ stack[i + 1].node = child
              /\ stack[i + 1].regions = me.regions
              /\ stack[i + 1].styles =
                   (IF stack[i + 1].pc = "enter" THEN me.styles
                    ELSE Barred(me.styles, NodeId(child)))
         /\ (me.pc = "done" /\ me.res.tag = "Ok") =>
              /\ Len(me.res.frames) = Len(me.sub.frames)
              /\ \A k \in 1..Len(me.sub.frames) :
                   LET got == me.sub.frames[k]
                       mine == me.res.frames[k]
                   IN /\ mine.cts = got.cts
                      /\ mine.item.size = got.item.size
                      /\ Len(mine.item.elements) = Len(got.item.elements) + 1
                      /\ mine.item.elements[1] =
                           [pos |-> <<0, 0>>, element |-> rect(got.item.size)]
                      /\ Tail(mine.item.elements) = got.item.elements

\* C16 witness: in a debug build, a fill node around a stroke node around a
\* flow of two parts has finished under a style chain that is not empty, in
\* regions with a backlog: each of its two frames, which differ in size,
\* holds the filled rectangle, the stroked one and the part.
C16_Witness ==
  /\ debug
  /\ Depth = 1
  /\ Top.node = NodeFilled(NodeStroked(TwoParts, "thin"), "red")
  /\ Top.pc = "done"
  /\ Top.styles # <<>>
  /\ Top.res.tag = "Ok"
  /\ Len(Top.res.frames) = 2
  /\ Top.res.frames[1].item.size # Top.res.frames[2].item.size
  /\ \A k \in 1..2 :
       /\ Len(Top.res.frames[k].item.elements) = 3
       /\ Top.res.frames[k].item.elements[1].element.fill = Some("red")
       /\ Top.res.frames[k].item.elements[2].element.stroke = Some("thin")

\* C17. No rollback on failure: a call whose own algorithm has failed hands
\* the error to its caller and leaves the cache as it is, so it inserts
\* nothing and the entries of the calls that had returned frames before stay
\* as they are; the caller's own algorithm fails in turn, without touching
\* the cache, and so on up to the outermost call.
C17_NoRollback ==
  [][/\ (Depth > 0 /\ Top.pc = "done" /\ Top.res.tag = "Err") =>
          /\ cache' = cache
          /\ Handed = Top.res
          /\ \A i \in Active : \A e \in stack[i].born : InCache(cache', e[1], e[2])
     /\ (Depth > 0 /\ Top.pc = "wait" /\ Top.sub.tag = "Err") =>
          /\ cache' = cache
          /\ Len(stack') = Depth
          /\ stack'[Depth].pc = "done"
          /\ stack'[Depth].res = Top.sub
          /\ stack'[Depth].born = Top.born]_vars

\* C17 witness: the first call of a session, of a stack whose first child is
\* a fill node around a box and whose second child fails, has returned the
\* error; the cache holds the entries of the fill node and of the box, and
\* none for the stack or for the child that failed.
C17_Witness ==
  /\ Returned
  /\ calls = 1
  /\ ret.tag = "Err"
  /\ top.node = Pack(StackNode(<<NodeFilled(UnitBox, "red"), NoWay>>))
  /\ ret.error.failed = NoWay.hash
  /\ top.styles = <<>>
  /\ DOMAIN cache = {Fingerprint(NodeFilled(UnitBox, "red"), <<>>),
                     Fingerprint(UnitBox, <<>>)}

\* C18. Wrappers never trip the consistency fault: in a tree of empty,
\* sized, fill and stroke nodes, the frames an own algorithm returns are
\* never more than the regions, record the expansion of the regions of the
\* call, and have every pinned exact equal to the size of these regions and
\* every pinned base equal to their base; the build with debug assertions
\* does not panic.
C18_WrappersConsistent ==
  /\ debug
  /\ fault = "none"
  /\ \A i \in Active :
       (stack[i].pc = "done" /\ stack[i].res.tag = "Ok") =>
         /\ Len(stack[i].res.frames) <= 1 + Len(stack[i].regions.backlog)
         /\ \A k \in 1..Len(stack[i].res.frames) :
              LET cts == stack[i].res.frames[k].cts IN
                /\ cts.expand = stack[i].regions.expand
                /\ \A a \in Axes :
                     /\ cts.exact[a] \in {None, Some(stack[i].regions.current[a])}
                     /\ cts.base[a] \in {None, Some(stack[i].regions.base[a])}

\* C18 witness: the call of a sized node around a sized node around the
\* empty node has returned frames; each of the three calls has passed the
\* check and inserted its entry, with a pin on exact or on base.
C18_Witness ==
  /\ Returned
  /\ ret.tag = "Ok"
  /\ NodeId(top.node) = "Sized"
  /\ NodeId(top.node.item.child) = "Sized"
  /\ top.node.item.child.item.child = DefaultNode
  /\ Cardinality(DOMAIN cache) = 3
  /\ \A h \in DOMAIN cache :
       \/ AnySome(cache[h][1].frames[1].cts.exact)
       \/ AnySome(cache[h][1].frames[1].cts.base)

\* C20. A sized node touches only the first frame: it returns as many frames
\* as its child returned, the second and further ones as the child returned
\* them; the first one keeps the child's elements and gets the constraints
\* of the sized node. When the child has returned no frame at all, the sized
\* node panics on the index: it returns neither frames nor an error and
\* nothing is inserted.
C20_SizedFirstFrameOnly ==
  [][/\ (Depth > 0 /\ NodeId(Top.node) = "Sized" /\ Top.pc = "wait"
            /\ Top.sub.tag = "Ok") =>
          IF Top.sub.frames = <<>>
          THEN /\ fault' = "index"
               /\ stack' = stack
               /\ ret' = ret
               /\ cache' = cache
          ELSE LET got == Top.sub.frames
                   mine == stack'[Depth].res.frames
               IN /\ fault' = "none"
                  /\ stack'[Depth].pc = "done"
                  /\ stack'[Depth].res.tag = "Ok"
                  /\ Len(mine) = Len(got)
                  /\ \A k \in 2..Len(got) : mine[k] = got[k]
                  /\ mine[1].item.elements = got[1].item.elements
                  /\ mine[1].cts.exact =
                       Filter(Top.regions.current,
                              SpecOr(Top.regions.expand, IsAuto(Top.node.item.sizing)))
     /\ fault' = "index" =>
          (Depth > 0 /\ NodeId(Top.node) = "Sized" /\ Top.sub = Ok(<<>>))]_vars

\* C20 witness: in a build without debug assertions, a sized node whose
\* child had returned two frames has finished: its second frame is the
\* child's second frame, its first frame has the child's element, another
\* size and other constraints.
C20_Witness ==
  /\ ~debug
  /\ Depth = 1
  /\ NodeId(Top.node) = "Sized"
  /\ Top.pc = "done"
  /\ Top.res.tag = "Ok"
  /\ Len(Top.sub.frames) = 2
  /\ Top.res.frames[2] = Top.sub.frames[2]
  /\ Top.res.frames[1].item.elements = Top.sub.frames[1].item.elements
  /\ Top.res.frames[1].item.size # Top.sub.frames[1].item.size
  /\ Top.res.frames[1].cts # Top.sub.frames[1].cts

\* The allocations the cache entries hold a handle to.
KeptAddrs == UNION {{kept[k].frames[i] : i \in 1..Len(kept[k].frames)} : k \in 1..Len(kept)}

\* C19. Cached frames are isolated from wrapper mutation: the frames that
\* the handles of a cache entry point to are the frames that were inserted,
\* whatever sized, fill and stroke nodes have done since to the frames they
\* were returned; what a wrapper has written to is a frame that no cache
\* entry and no one else holds; and the frames with which the cache answers
\* a later call are the ones inserted.
C19_CachedFramesIsolated ==
  /\ \A k \in 1..Len(kept) : FramesAt(heap, kept[k].frames) = kept[k].was
  /\ (hand.pc = "computed" /\ hand.by \in {"sized", "fill", "stroke"}
        /\ hand.frames # <<>>) =>
       /\ hand.frames[1] \notin KeptAddrs
       /\ heap[hand.frames[1]].strong = 1
  /\ hand.by = "cache" =>
       /\ hand.frames = kept[hand.from].frames
       /\ FramesAt(heap, hand.frames) = kept[hand.from].was

\* C19 witness: the cache answers a call with the frames of the first entry,
\* a leaf's frames without any shape; a fill node had been returned these
\* frames before, and its own entry holds them with the shape in front.
C19_Witness ==
  /\ hand.by = "cache"
  /\ hand.from = 1
  /\ Len(kept) >= 2
  /\ \A i \in 1..Len(hand.frames) : heap[hand.frames[i]].frame.elements
                                       = kept[1].was[i].elements
  /\ Len(kept[2].frames) = Len(kept[1].frames)
  /\ \A i \in 1..Len(kept[2].frames) :
       /\ Len(kept[2].was[i].elements) = Len(kept[1].was[i].elements) + 1
       /\ Tail(kept[2].was[i].elements) = kept[1].was[i].elements
       /\ kept[2].was[i].elements[1].element.fill = Some("red")
  /\ kept[1].frames # <<>>
====
